---- MODULE Spec2Model ----
(***************************************************************************)
(* Model of the jade-three catalog scripts:                                *)
(*   scripts/fetch-apple-music.js  (media-store backfill)                  *)
(*   scripts/fetch-youtube.js      (video-platform backfill, part_002 1-246)*)
(*   scripts/fetch-releases.js     (full resync, part_002 248-491)         *)
(*                                                                         *)
(* JavaScript strings are sequences of characters (one-character TLA+      *)
(* strings, or a token naming a non-ASCII character).  A JavaScript value  *)
(* that may be null or undefined is a record [kind, chars].                *)
(***************************************************************************)
EXTENDS Integers, Sequences, FiniteSets, TLC

(***************************************************************************)
(* Bounds of the model.                                                    *)
(***************************************************************************)
MaxLen == 3
MaxResults == 3
MaxAlbums == 2
MaxTracks == 2
MaxPageSize == 2
MaxExisting == 2
MaxReleases == 2
MaxItems == 3
MaxEdits == 1

(***************************************************************************)
(* JavaScript values.                                                      *)
(***************************************************************************)
Null == [kind |-> "null", chars |-> <<>>]
Undefined == [kind |-> "undefined", chars |-> <<>>]
Str(s) == [kind |-> "str", chars |-> s]

\* x ?? null
OrNull(v) == IF v.kind = "str" THEN v ELSE Null

\* x ?? ''
OrEmpty(v) == IF v.kind = "str" THEN v.chars ELSE <<>>

\* JavaScript truthiness of a string-or-nullish value: '' is falsy.
Truthy(v) == v.kind = "str" /\ v.chars # <<>>

(***************************************************************************)
(* String primitives.                                                      *)
(***************************************************************************)
UpperLetters == <<"A","B","C","D","E","F","G","H","I","J","K","L","M",
                  "N","O","P","Q","R","S","T","U","V","W","X","Y","Z">>
LowerLetters == <<"a","b","c","d","e","f","g","h","i","j","k","l","m",
                  "n","o","p","q","r","s","t","u","v","w","x","y","z">>
Digits == {"0","1","2","3","4","5","6","7","8","9"}

Range(s) == {s[i] : i \in 1..Len(s)}

\* The class [a-z0-9] of the regular expression /[^a-z0-9]/g.
LowerAlnum == Range(LowerLetters) \cup Digits

\* String.prototype.toLowerCase on one character.  "E_acute" is U+00C9,
\* "I_dot" is U+0130 (lowercases to "i" followed by U+0307, "comb_dot"),
\* "K_kelvin" is U+212A (lowercases to ASCII "k").
LowerChar(c) ==
  IF \E i \in 1..26 : UpperLetters[i] = c
    THEN <<LowerLetters[CHOOSE i \in 1..26 : UpperLetters[i] = c]>>
  ELSE IF c = "E_acute" THEN <<"e_acute">>
  ELSE IF c = "I_dot" THEN <<"i", "comb_dot">>
  ELSE IF c = "K_kelvin" THEN <<"k">>
  ELSE <<c>>

RECURSIVE toLowerCase(_)
toLowerCase(str) ==
  IF str = <<>> THEN <<>> ELSE LowerChar(Head(str)) \o toLowerCase(Tail(str))

\* str.replace(/[^...]/g, '') for the character class keep.
RECURSIVE RemoveNotIn(_, _)
RemoveNotIn(str, keep) ==
  IF str = <<>> THEN <<>>
  ELSE IF Head(str) \in keep THEN <<Head(str)>> \o RemoveNotIn(Tail(str), keep)
  ELSE RemoveNotIn(Tail(str), keep)

\* String.prototype.startsWith
startsWith(s, p) == Len(p) <= Len(s) /\ SubSeq(s, 1, Len(p)) = p

\* String.prototype.endsWith (the anchor $ of /single$/).
endsWith(s, p) ==
  Len(p) <= Len(s) /\ SubSeq(s, Len(s) - Len(p) + 1, Len(s)) = p

\* s.replace(/suffix$/, '')
StripSuffix(s, p) ==
  IF endsWith(s, p) THEN SubSeq(s, 1, Len(s) - Len(p)) ELSE s

\* String.prototype.includes
includes(s, p) ==
  \E i \in 0..(Len(s) - Len(p)) : SubSeq(s, i + 1, i + Len(p)) = p

\* s.slice(0, n)
SliceTo(s, n) == SubSeq(s, 1, IF Len(s) < n THEN Len(s) ELSE n)

\* String.prototype.trim (whitespace here is the space character).
RECURSIVE TrimStart(_)
TrimStart(s) ==
  IF s # <<>> /\ Head(s) = " " THEN TrimStart(Tail(s)) ELSE s
RECURSIVE TrimEnd(_)
TrimEnd(s) ==
  IF s # <<>> /\ s[Len(s)] = " " THEN TrimEnd(SubSeq(s, 1, Len(s) - 1)) ELSE s
trim(s) == TrimEnd(TrimStart(s))

\* All sequences over S of length at most n.
SeqUpTo(S, n) == UNION {[1..k -> S] : k \in 0..n}

(***************************************************************************)
(* fetch-apple-music.js: normalize, findBestMatch                          *)
(***************************************************************************)
\* A plausible slip: a case-insensitive class instead of lowercasing.
normalizeKeepCase(str) ==
  RemoveNotIn(str, LowerAlnum \cup Range(UpperLetters))

normalize(str) == RemoveNotIn(toLowerCase(str), LowerAlnum)

\* fetch-youtube.js carries its own copy of normalize.
normalizeYoutube(str) == RemoveNotIn(toLowerCase(str), LowerAlnum)

\* rTitle.replace(/single$/, '').replace(/ep$/, '').replace(/-$/, '')
CleanTitle(rTitle) ==
  StripSuffix(StripSuffix(StripSuffix(rTitle,
      <<"s","i","n","g","l","e">>), <<"e","p">>), <<"-">>)

\* The condition of the first loop of findBestMatch for one result.
ExactHit(r, normalizedTitle) ==
  LET rTitle == normalize(OrEmpty(r.collectionName))
      rTitleClean == CleanTitle(rTitle)
  IN  rTitleClean = normalizedTitle \/ rTitle = normalizedTitle

\* The condition of the second loop of findBestMatch for one result.
PrefixHit(r, normalizedTitle) ==
  startsWith(normalize(OrEmpty(r.collectionName)), normalizedTitle)

\* for (const r of results) { if (exact) return r.collectionViewUrl ?? null }
\* from position i on; [hit |-> FALSE] when the loop runs to its end.
RECURSIVE ExactPass(_, _, _)
ExactPass(results, normalizedTitle, i) ==
  IF i > Len(results) THEN [hit |-> FALSE, val |-> Null]
  ELSE IF ExactHit(results[i], normalizedTitle)
    THEN [hit |-> TRUE, val |-> OrNull(results[i].collectionViewUrl)]
  ELSE ExactPass(results, normalizedTitle, i + 1)

RECURSIVE PrefixPass(_, _, _)
PrefixPass(results, normalizedTitle, i) ==
  IF i > Len(results) THEN [hit |-> FALSE, val |-> Null]
  ELSE IF PrefixHit(results[i], normalizedTitle)
    THEN [hit |-> TRUE, val |-> OrNull(results[i].collectionViewUrl)]
  ELSE PrefixPass(results, normalizedTitle, i + 1)

\* A plausible slip: one loop that takes the first result matching either
\* heuristic, so that an earlier prefix match wins over a later exact match.
RECURSIVE EitherPass(_, _, _)
EitherPass(results, normalizedTitle, i) ==
  IF i > Len(results) THEN Null
  ELSE IF ExactHit(results[i], normalizedTitle)
          \/ PrefixHit(results[i], normalizedTitle)
    THEN OrNull(results[i].collectionViewUrl)
  ELSE EitherPass(results, normalizedTitle, i + 1)

findBestMatchOneLoop(results, releaseTitle) ==
  EitherPass(results, normalize(releaseTitle), 1)

\* A plausible slip: the looser second loop left out.
findBestMatchExactOnly(results, releaseTitle) ==
  ExactPass(results, normalize(releaseTitle), 1).val

findBestMatch(results, releaseTitle) ==
  LET normalizedTitle == normalize(releaseTitle)
      exact == ExactPass(results, normalizedTitle, 1)
      prefix == PrefixPass(results, normalizedTitle, 1)
  IN  IF exact.hit THEN exact.val
      ELSE IF prefix.hit THEN prefix.val
      ELSE Null

(***************************************************************************)
(* State.                                                                  *)
(***************************************************************************)
VARIABLES
  pc,             \* position of the running script
  fnIn,           \* arguments of the function under test
  fnOut,          \* its result
  file,           \* src/data/releases.json as it is on disk
  file0,          \* the document on disk when the run started
  writes,         \* number of writeFileSync calls of the run
  creds,          \* whether .env / the environment holds the credentials
  catalog,        \* the primary catalog: the artist's albums, in list order
  pageSize,       \* number of items the catalog puts on one page
  url,            \* fetchAllPages: url (0 is null)
  albumObjects,   \* fetch-releases main: albumObjects
  existing,       \* fetch-releases main: existing
  releases,       \* fetch-releases main: releases
  idx,            \* position of the for loop over albumObjects / data.releases
  trackItems,     \* fetch-releases main: trackItems
  nextTracksUrl,  \* fetch-releases main: nextTracksUrl (0 is null)
  manual,         \* fetch-releases main: manual
  script,         \* the backfill script that runs: "apple" or "youtube"
  data,           \* backfill main: data
  notFound,       \* backfill main: notFound
  counters,       \* backfill main: updated / updatedVideo, updatedPlaylist, skipped
  needs,          \* fetch-youtube main: needsVideo, needsPlaylist
  candidate,      \* fetch-youtube main: candidate
  asked,          \* the last prompt shown to the operator and the answer read
  searched,       \* the searches issued so far: <<release position, kind>>
  failed,         \* the searches that ended in an error
  runs,           \* backfill runs side by side: script, position, data of each
  history         \* the reads and writes of the data file, in time order

fnVars == <<fnIn, fnOut>>
diskVars == <<file, file0, writes>>
runVars == <<creds, idx>>
resyncVars == <<catalog, pageSize, url, albumObjects, existing,
                releases, trackItems, nextTracksUrl, manual>>
bfVars == <<script, data, notFound, counters, needs, candidate, asked,
            searched, failed>>
raceVars == <<runs, history>>
vars == <<pc, fnVars, diskVars, runVars, resyncVars, bfVars, raceVars>>

AllNull ==
  [appleMusicUrl |-> Null, amazonMusicUrl |-> Null,
   youtubePlaylistUrl |-> Null, youtubeUrl |-> Null]

\* The variables of the resync before main runs.
ResyncIdle ==
  /\ catalog = <<>>
  /\ pageSize = 1
  /\ url = 0
  /\ albumObjects = <<>>
  /\ existing = [releases |-> <<>>]
  /\ releases = <<>>
  /\ trackItems = <<>>
  /\ nextTracksUrl = 0
  /\ manual = AllNull

NoPrompt ==
  [release |-> 0, kind |-> "none", candidate |-> Null, answer |-> <<>>,
   before |-> Null]

\* Only one run is modelled.
RaceIdle ==
  /\ runs = <<>>
  /\ history = <<>>

\* The variables of the backfill scripts before main runs.
BackfillIdle ==
  /\ script = "none"
  /\ data = [lastUpdated |-> "never", releases |-> <<>>]
  /\ notFound = <<>>
  /\ counters = [updated |-> 0, updatedPlaylist |-> 0, skipped |-> 0]
  /\ needs = [video |-> FALSE, playlist |-> FALSE]
  /\ candidate = Null
  /\ asked = NoPrompt
  /\ searched = {}
  /\ failed = {}

\* No script runs: the specifications of the pure functions.
NoRun ==
  /\ file = [readable |-> FALSE, lastUpdated |-> "never", releases |-> <<>>]
  /\ file0 = file
  /\ writes = 0
  /\ creds = FALSE
  /\ idx = 1
  /\ ResyncIdle
  /\ BackfillIdle
  /\ RaceIdle

(***************************************************************************)
(* normalize on every string over a small alphabet.                        *)
(***************************************************************************)
NormAlphabet == {"a", "Z", "7", "-", " ", "E_acute", "I_dot", "K_kelvin"}

InitNorm ==
  /\ pc = "call"
  /\ fnIn \in [str : SeqUpTo(NormAlphabet, MaxLen)]
  /\ fnOut = [copy |-> "none", val |-> <<>>]
  /\ NoRun

NormalizeApple ==
  /\ pc = "call"
  /\ fnOut' = [copy |-> "apple", val |-> normalize(fnIn.str)]
  /\ pc' = "returned"
  /\ UNCHANGED <<raceVars, fnIn, diskVars, runVars, resyncVars, bfVars>>

NormalizeYoutube ==
  /\ pc = "call"
  /\ fnOut' = [copy |-> "youtube", val |-> normalizeYoutube(fnIn.str)]
  /\ pc' = "returned"
  /\ UNCHANGED <<raceVars, fnIn, diskVars, runVars, resyncVars, bfVars>>

NextNorm == NormalizeApple \/ NormalizeYoutube

SpecNorm == InitNorm /\ [][NextNorm]_vars

(***************************************************************************)
(* findBestMatch on every list of search results drawn from a small pool.  *)
(***************************************************************************)
\* collectionName values the media store may return; the second and third
\* carry the " - Single" / " - EP" suffix the store appends.
CandidateNames ==
  { Undefined,
    Str(<<"E","h"," ","-"," ","S","i","n","g","l","e">>),
    Str(<<"E","H"," ","-"," ","E","P">>),
    Str(<<"E","h"," ","2">>),
    Str(<<"D","e","e","p">>) }

TargetTitles ==
  { <<"E","h">>, <<"D","e","e","p">>, <<"D","e">>, <<"!">> }

PositionDigits == <<"1","2","3","4","5","6","7","8","9">>

\* The store URL of the result at position i of a response.
ViewUrl(i) == Str(<<"u", PositionDigits[i]>>)

ResultLists ==
  UNION { { [i \in 1..k |->
               [collectionName |-> f[i][1],
                collectionViewUrl |-> IF f[i][2] THEN ViewUrl(i) ELSE Undefined]]
            : f \in [1..k -> CandidateNames \X BOOLEAN] }
          : k \in 0..MaxResults }

InitMatch ==
  /\ pc = "call"
  /\ fnIn \in [results : ResultLists, releaseTitle : TargetTitles]
  /\ fnOut = [copy |-> "none", val |-> Null]
  /\ NoRun

CallFindBestMatch ==
  /\ pc = "call"
  /\ fnOut' = [copy |-> "findBestMatch",
               val |-> findBestMatch(fnIn.results, fnIn.releaseTitle)]
  /\ pc' = "returned"
  /\ UNCHANGED <<raceVars, fnIn, diskVars, runVars, resyncVars, bfVars>>

NextMatch == CallFindBestMatch

SpecMatch == InitMatch /\ [][NextMatch]_vars

(***************************************************************************)
(* Claims about findBestMatch.                                             *)
(***************************************************************************)
\* The normalized title, or the normalized title without its trailing
\* "single" / "ep" tokens, equals the normalized target.
MatchesExactly(r, title) ==
  LET n == normalize(OrEmpty(r.collectionName))
      stripped == StripSuffix(StripSuffix(n, <<"s","i","n","g","l","e">>),
                              <<"e","p">>)
  IN  n = normalize(title) \/ stripped = normalize(title)

MatchesPrefix(r, title) ==
  startsWith(normalize(OrEmpty(r.collectionName)), normalize(title))

ExactPositions == {i \in 1..Len(fnIn.results) :
                     MatchesExactly(fnIn.results[i], fnIn.releaseTitle)}
PrefixPositions == {i \in 1..Len(fnIn.results) :
                      MatchesPrefix(fnIn.results[i], fnIn.releaseTitle)}
Least(S) == CHOOSE i \in S : \A j \in S : i <= j
MatchReturned == pc = "returned" /\ fnOut.copy = "findBestMatch"

\* C5: when some candidate matches exactly, findBestMatch returns the URL of
\* the first exactly-matching candidate in list order (null when that
\* candidate carries no URL), whatever precedes it in the list.
C5_ExactTierFirst ==
  (MatchReturned /\ ExactPositions # {})
    => fnOut.val = OrNull(fnIn.results[Least(ExactPositions)].collectionViewUrl)

\* A prefix-only candidate precedes the exact match that is returned.
C5_Witness ==
  /\ MatchReturned
  /\ ExactPositions # {}
  /\ Least(ExactPositions) > 1
  /\ 1 \in PrefixPositions
  /\ fnIn.results[1].collectionViewUrl.kind = "str"
  /\ fnOut.val = ViewUrl(Least(ExactPositions))

\* C6 as amended: with no exact match the first prefix-matching candidate is
\* selected and its URL returned; the result is null exactly when no
\* candidate matches either heuristic or the selected candidate has no URL.
C6_PrefixTierThenNone ==
  MatchReturned =>
    /\ (ExactPositions = {} /\ PrefixPositions # {})
         => fnOut.val =
              OrNull(fnIn.results[Least(PrefixPositions)].collectionViewUrl)
    /\ (ExactPositions = {} /\ PrefixPositions = {}) => fnOut.val = Null
    /\ fnOut.val = Null
         => \/ ExactPositions = {} /\ PrefixPositions = {}
            \/ /\ ExactPositions # {}
               /\ fnIn.results[Least(ExactPositions)].collectionViewUrl.kind
                    # "str"
            \/ /\ ExactPositions = {}
               /\ fnIn.results[Least(PrefixPositions)].collectionViewUrl.kind
                    # "str"

\* No exact match; the second candidate is the first prefix match.
C6_Witness ==
  /\ MatchReturned
  /\ ExactPositions = {}
  /\ PrefixPositions # {}
  /\ Least(PrefixPositions) = 2
  /\ fnOut.val = ViewUrl(2)

\* C6 as stated: null is returned only when no candidate matches the exact
\* or the prefix heuristic.
C6_NoneOnlyWhenNoMatch ==
  (MatchReturned /\ fnOut.val = Null)
    => (ExactPositions = {} /\ PrefixPositions = {})

(***************************************************************************)
(* Claims about normalize.                                                 *)
(***************************************************************************)
\* C7: the result of normalize holds only lowercase ASCII letters and
\* digits, and normalizing it again changes nothing; for the copy of
\* fetch-apple-music.js and for the copy of fetch-youtube.js.
C7_NormalizeIdempotent ==
  /\ (pc = "returned" /\ fnOut.copy = "apple")
       => /\ Range(fnOut.val) \subseteq LowerAlnum
          /\ normalize(fnOut.val) = fnOut.val
  /\ (pc = "returned" /\ fnOut.copy = "youtube")
       => /\ Range(fnOut.val) \subseteq LowerAlnum
          /\ normalizeYoutube(fnOut.val) = fnOut.val

\* An input with an upper-case letter, a separator and a non-ASCII letter
\* whose lower-case form is two characters.
C7_Witness ==
  /\ pc = "returned"
  /\ fnOut.copy = "apple"
  /\ {"Z", "-", "I_dot"} \subseteq Range(fnIn.str)
  /\ Range(fnOut.val) = {"z", "i"}

(***************************************************************************)
(* fetch-releases.js: data formatting helpers                              *)
(***************************************************************************)
Num(n) == [kind |-> "num", n |-> n]

\* track.duration_ms ?? 0
OrZero(v) == IF v.kind = "num" THEN v.n ELSE 0

DigitChars == <<"0","1","2","3","4","5","6","7","8","9">>

\* Number.prototype.toString for a non-negative integer.
RECURSIVE toString(_)
toString(n) ==
  IF n < 10 THEN <<DigitChars[n + 1]>>
  ELSE toString(n \div 10) \o <<DigitChars[(n % 10) + 1]>>

\* String.prototype.padStart(2, '0')
padStart2(str) == IF Len(str) < 2 THEN <<"0">> \o str ELSE str

\* Math.round(ms / 1000) for a non-negative integer ms: halves round up.
RoundDiv1000(ms) == (ms + 500) \div 1000

\* A plausible slip: Math.floor in place of Math.round.
formatDurationFloor(ms) ==
  LET totalSec == ms \div 1000
  IN  toString(totalSec \div 60) \o <<":">> \o padStart2(toString(totalSec % 60))

formatDuration(ms) ==
  LET totalSec == RoundDiv1000(ms)
      min == totalSec \div 60
      sec == totalSec % 60
  IN  toString(min) \o <<":">> \o padStart2(toString(sec))

(***************************************************************************)
(* fetch-releases.js: loadExisting, preserveManualUrls,                    *)
(* preserveTrackManualUrls                                                 *)
(***************************************************************************)
\* JSON.parse(readFileSync(OUTPUT_PATH)) with the catch: a missing or
\* unparsable file reads as { releases: [] }.
loadExisting(f) ==
  IF f.readable THEN [releases |-> f.releases] ELSE [releases |-> <<>>]

\* Array.prototype.find(x => x.spotifyId === id) from position i on: the
\* position of the first such element, 0 when there is none.
RECURSIVE FindBySpotifyId(_, _, _)
FindBySpotifyId(seq, id, i) ==
  IF i > Len(seq) THEN 0
  ELSE IF seq[i].spotifyId = id THEN i
  ELSE FindBySpotifyId(seq, id, i + 1)

\* A plausible slip: the release is looked up by its title.
RECURSIVE FindByTitle(_, _, _)
FindByTitle(seq, title, i) ==
  IF i > Len(seq) THEN 0
  ELSE IF seq[i].title = title THEN i
  ELSE FindByTitle(seq, title, i + 1)

\* A plausible slip: nothing is carried over from the existing document.
preserveNothing(ex, spotifyId) == AllNull

preserveManualUrls(ex, spotifyId) ==
  LET found == FindBySpotifyId(ex.releases, spotifyId, 1)
  IN  IF found = 0 THEN AllNull
      ELSE [appleMusicUrl |-> OrNull(ex.releases[found].appleMusicUrl),
            amazonMusicUrl |-> OrNull(ex.releases[found].amazonMusicUrl),
            youtubePlaylistUrl |->
              OrNull(ex.releases[found].youtubePlaylistUrl),
            youtubeUrl |-> OrNull(ex.releases[found].youtubeUrl)]

TrackAllNull ==
  [appleMusicUrl |-> Null, amazonMusicUrl |-> Null, youtubeUrl |-> Null]

\* A plausible slip: the track is looked up in every release of the
\* document, not only in the release with the given identifier.
RECURSIVE FindTrackAnywhere(_, _, _)
FindTrackAnywhere(rels, trackId, i) ==
  IF i > Len(rels) THEN TrackAllNull
  ELSE LET t == FindBySpotifyId(rels[i].tracks, trackId, 1)
       IN  IF t = 0 THEN FindTrackAnywhere(rels, trackId, i + 1)
           ELSE [appleMusicUrl |-> OrNull(rels[i].tracks[t].appleMusicUrl),
                 amazonMusicUrl |-> OrNull(rels[i].tracks[t].amazonMusicUrl),
                 youtubeUrl |-> OrNull(rels[i].tracks[t].youtubeUrl)]

preserveTrackAnyRelease(ex, spotifyId, trackId) ==
  FindTrackAnywhere(ex.releases, trackId, 1)

preserveTrackManualUrls(ex, spotifyId, trackId) ==
  LET release == FindBySpotifyId(ex.releases, spotifyId, 1)
      track == IF release = 0 THEN 0
               ELSE FindBySpotifyId(ex.releases[release].tracks, trackId, 1)
  IN  IF track = 0 THEN TrackAllNull
      ELSE LET t == ex.releases[release].tracks[track]
           IN  [appleMusicUrl |-> OrNull(t.appleMusicUrl),
                amazonMusicUrl |-> OrNull(t.amazonMusicUrl),
                youtubeUrl |-> OrNull(t.youtubeUrl)]

(***************************************************************************)
(* fetch-releases.js: the records main builds                              *)
(***************************************************************************)
\* trackItems.map(track => ({...})); title, trackNumber, spotifyUrl and
\* isExplicit are copied from the catalog and are left out of the model.
BuildTrack(ex, album, track) ==
  LET trackManual == preserveTrackManualUrls(ex, album.id, track.id)
  IN  [spotifyId |-> track.id,
       appleMusicUrl |-> trackManual.appleMusicUrl,
       amazonMusicUrl |-> trackManual.amazonMusicUrl,
       youtubeUrl |-> trackManual.youtubeUrl,
       durationMs |-> OrZero(track.duration_ms),
       durationFormatted |-> formatDuration(OrZero(track.duration_ms))]

\* album.album_type === 'album' ? 'album' : 'single'
ReleaseType(album) == IF album.album_type = "album" THEN "album" ELSE "single"

\* The object pushed to releases; year, spotifyUrl, the artwork URLs and
\* totalTracks are copied from the catalog and are left out of the model.
BuildRelease(ex, album, items, man) ==
  [id |-> <<ReleaseType(album), "-", album.id>>,
   type |-> ReleaseType(album),
   title |-> album.name,
   releaseDate |-> album.release_date,
   spotifyId |-> album.id,
   appleMusicUrl |-> man.appleMusicUrl,
   amazonMusicUrl |-> man.amazonMusicUrl,
   youtubePlaylistUrl |-> man.youtubePlaylistUrl,
   youtubeUrl |-> man.youtubeUrl,
   tracks |-> [t \in 1..Len(items) |-> BuildTrack(ex, album, items[t])]]

\* The value of a decimal digit and of a string of decimal digits.
DigitValue(c) == (CHOOSE d \in 1..10 : DigitChars[d] = c) - 1

RECURSIVE ParseNat(_)
ParseNat(str) ==
  IF str = <<>> THEN 0
  ELSE 10 * ParseNat(SubSeq(str, 1, Len(str) - 1)) + DigitValue(str[Len(str)])

\* The number of days from 1970-01-01 to the day d of month m of year y.
DaysFromCivil(y, m, d) ==
  LET yy == IF m <= 2 THEN y - 1 ELSE y
      era == yy \div 400
      yoe == yy - era * 400
      doy == (153 * (IF m > 2 THEN m - 3 ELSE m + 9) + 2) \div 5 + d - 1
      doe == yoe * 365 + yoe \div 4 - yoe \div 100 + doy
  IN  era * 146097 + doe - 719468

\* new Date(str).getTime() for the date-only forms YYYY, YYYY-MM and
\* YYYY-MM-DD the catalog uses: midnight UTC of the day, a missing month or
\* day being 1.  The time value is counted in days instead of milliseconds.
getTime(str) ==
  DaysFromCivil(ParseNat(SubSeq(str, 1, 4)),
                IF Len(str) >= 7 THEN ParseNat(SubSeq(str, 6, 7)) ELSE 1,
                IF Len(str) >= 10 THEN ParseNat(SubSeq(str, 9, 10)) ELSE 1)

\* A plausible slip: a release is put before the releases of its own date.
RECURSIVE InsertBeforeEqual(_, _)
InsertBeforeEqual(sorted, r) ==
  IF sorted = <<>> THEN <<r>>
  ELSE IF getTime(Head(sorted).releaseDate) > getTime(r.releaseDate)
    THEN <<Head(sorted)>> \o InsertBeforeEqual(Tail(sorted), r)
  ELSE <<r>> \o sorted

RECURSIVE SortUnstable(_)
SortUnstable(rels) ==
  IF rels = <<>> THEN <<>>
  ELSE InsertBeforeEqual(SortUnstable(SubSeq(rels, 1, Len(rels) - 1)),
                         rels[Len(rels)])

\* releases.sort((a, b) => new Date(b.releaseDate).getTime()
\*                         - new Date(a.releaseDate).getTime()):
\* Array.prototype.sort is stable, so a release stays behind the releases
\* before it whose time value is not smaller.
RECURSIVE InsertByDate(_, _)
InsertByDate(sorted, r) ==
  IF sorted = <<>> THEN <<r>>
  ELSE IF getTime(Head(sorted).releaseDate) >= getTime(r.releaseDate)
    THEN <<Head(sorted)>> \o InsertByDate(Tail(sorted), r)
  ELSE <<r>> \o sorted

RECURSIVE SortNewestFirst(_)
SortNewestFirst(rels) ==
  IF rels = <<>> THEN <<>>
  ELSE InsertByDate(SortNewestFirst(SubSeq(rels, 1, Len(rels) - 1)),
                    rels[Len(rels)])

(***************************************************************************)
(* fetch-releases.js: the documents and catalogs a run may meet            *)
(***************************************************************************)
Link(c) == Str(<<"l", c>>)

\* release_date values of the three precisions of the catalog.  The first
\* two name the same day.
DateYear == <<"2","0","1","9">>
DateDay == <<"2","0","1","9","-","0","1","-","0","1">>
DateMonth == <<"2","0","1","9","-","0","5">>

TitleEh == <<"E","h">>
TitleDeep == <<"D","e","e","p">>

\* A track of a persisted release.
ExistingTrack(id, apple, amazon, youtube) ==
  [spotifyId |-> id, appleMusicUrl |-> apple, amazonMusicUrl |-> amazon,
   youtubeUrl |-> youtube, durationMs |-> 59000,
   durationFormatted |-> <<"0",":","5","9">>]

\* A persisted release (src/types/releases.ts).
ExistingRelease(id, title, apple, amazon, playlist, youtube, tracks) ==
  [id |-> <<"single", "-", id>>, type |-> "single", title |-> title,
   releaseDate |-> DateYear, spotifyId |-> id,
   appleMusicUrl |-> apple, amazonMusicUrl |-> amazon,
   youtubePlaylistUrl |-> playlist, youtubeUrl |-> youtube,
   tracks |-> tracks]

\* Two curations of release a, a release z with the title of a, and a
\* release b whose track t1 has a link of its own.
ExistingReleases ==
  { ExistingRelease("a", TitleEh, Link("1"), Null, Str(<<>>), Link("2"),
      << ExistingTrack("t1", Link("3"), Null, Link("4")),
         ExistingTrack("t2", Null, Link("5"), Null) >>),
    ExistingRelease("a", TitleEh, Null, Link("6"), Link("7"), Null,
      << ExistingTrack("t2", Link("8"), Null, Null) >>),
    ExistingRelease("z", TitleEh, Link("9"), Link("9"), Link("9"), Link("9"),
      << ExistingTrack("t1", Link("z"), Link("z"), Link("z")) >>),
    ExistingRelease("b", TitleDeep, Null, Null, Null, Null,
      << ExistingTrack("t1", Link("b"), Null, Null) >>) }

\* Identifiers are unique across the release collection of a document.
UniqueIds(rels) ==
  \A i, j \in 1..Len(rels) : rels[i].spotifyId = rels[j].spotifyId => i = j

Document(rels) ==
  [readable |-> TRUE, lastUpdated |-> "earlier", releases |-> rels]

\* A missing or unparsable data file.
Unreadable ==
  [readable |-> FALSE, lastUpdated |-> "never", releases |-> <<>>]

ExistingFiles ==
  {Unreadable} \cup
  {Document(rels) : rels \in {x \in SeqUpTo(ExistingReleases, MaxExisting) :
                                UniqueIds(x)}}

AlbumIds == {"a", "b"}
TrackIds == {"t1", "t2"}
AlbumTypes == {"album", "single", "compilation"}
ReleaseDates == {DateYear, DateDay, DateMonth}
DurationPool == {0, 499, 500, 59000, 59499, 59500, 125000, 599500, 3599999}

NameOf(id) == IF id = "a" THEN TitleEh ELSE TitleDeep

CatalogTrack(id, duration) == [id |-> id, duration_ms |-> duration]

CatalogAlbum(id, type, date, tracks) ==
  [id |-> id, album_type |-> type, name |-> NameOf(id),
   release_date |-> date, tracks |-> tracks]

\* One identifier names one album of the catalog.
WellFormed(albums) ==
  \A i, j \in 1..Len(albums) : albums[i].id = albums[j].id
                                 => albums[i] = albums[j]

TrackIdLists ==
  {x \in SeqUpTo(TrackIds, MaxTracks) :
     \A i, j \in 1..Len(x) : x[i] = x[j] => i = j}

\* Catalogs that vary the album and track identifiers.
IdCatalogs ==
  {c \in SeqUpTo(
      {CatalogAlbum(id, "single", DateYear,
                    [t \in 1..Len(x) |-> CatalogTrack(x[t], Num(125000))])
         : id \in AlbumIds, x \in TrackIdLists}, MaxAlbums) : WellFormed(c)}

\* Catalogs that vary the duration of a track.
DurationCatalogs ==
  {<<CatalogAlbum("a", "single", DateYear, <<CatalogTrack("t1", d)>>)>>
     : d \in {Undefined} \cup {Num(n) : n \in DurationPool}}

\* Catalogs that vary the kind and the date of the releases.
DateTypeCatalogs ==
  {c \in SeqUpTo(
      {CatalogAlbum(id, ty, d, <<>>)
         : id \in AlbumIds, ty \in AlbumTypes, d \in ReleaseDates},
      MaxAlbums) : WellFormed(c)}

\* The items of the page that starts at position start, and its next link.
PageItems(seq, start) ==
  SubSeq(seq, start,
         IF start + pageSize - 1 < Len(seq) THEN start + pageSize - 1
         ELSE Len(seq))
PageNext(seq, start) ==
  IF start + pageSize <= Len(seq) THEN start + pageSize ELSE 0

\* GET /v1/albums/{id}: the album of the catalog with that identifier.
FullAlbum(id) ==
  catalog[CHOOSE i \in 1..Len(catalog) : catalog[i].id = id]

(***************************************************************************)
(* fetch-releases.js: main                                                 *)
(***************************************************************************)
InitResync ==
  /\ pc = "start"
  /\ fnIn = [str |-> <<>>]
  /\ fnOut = [copy |-> "none", val |-> <<>>]
  /\ \/ catalog \in IdCatalogs /\ file \in ExistingFiles
     \/ /\ catalog \in DurationCatalogs \cup DateTypeCatalogs
        /\ file \in {Unreadable} \cup
                    {Document(<<r>>) : r \in {x \in ExistingReleases :
                                                x.appleMusicUrl = Link("1")}}
  /\ file0 = file
  /\ writes = 0
  /\ creds \in BOOLEAN
  /\ pageSize \in 1..MaxPageSize
  /\ idx = 1
  /\ url = 0
  /\ albumObjects = <<>>
  /\ existing = [releases |-> <<>>]
  /\ releases = <<>>
  /\ trackItems = <<>>
  /\ nextTracksUrl = 0
  /\ manual = AllNull
  /\ BackfillIdle
  /\ RaceIdle

\* A rejected promise reaches main().catch: process.exit(1).
Exit1 ==
  /\ pc' = "exit1"
  /\ UNCHANGED <<raceVars, fnVars, diskVars, runVars, resyncVars, bfVars>>

\* loadEnv and the check of SPOTIFY_CLIENT_ID / SPOTIFY_CLIENT_SECRET.
R_LoadEnv ==
  /\ pc = "start"
  /\ pc' = IF creds THEN "auth" ELSE "exit1"
  /\ UNCHANGED <<raceVars, fnVars, diskVars, runVars, resyncVars, bfVars>>

\* getAccessToken: the token request is accepted or rejected.
R_GetAccessToken ==
  /\ pc = "auth"
  /\ \/ Exit1
     \/ /\ pc' = "list"
        /\ url' = 1
        /\ UNCHANGED <<raceVars, fnVars, bfVars, diskVars, creds, catalog, pageSize,
                       albumObjects, existing, releases, idx, trackItems,
                       nextTracksUrl, manual>>

\* A plausible slip: the items of the page without a next link are not kept.
R_FetchAllPagesDropLast ==
  /\ pc = "list"
  /\ url # 0
  /\ \/ Exit1
     \/ /\ albumObjects' = IF PageNext(catalog, url) = 0 THEN albumObjects
                            ELSE albumObjects \o PageItems(catalog, url)
        /\ url' = PageNext(catalog, url)
        /\ pc' = IF PageNext(catalog, url) = 0 THEN "loadExisting" ELSE "list"
        /\ UNCHANGED <<raceVars, fnVars, bfVars, diskVars, creds, catalog, pageSize,
                       existing, releases, idx, trackItems, nextTracksUrl,
                       manual>>

\* One turn of the while loop of fetchAllPages.
R_FetchAllPages ==
  /\ pc = "list"
  /\ url # 0
  /\ \/ Exit1
     \/ /\ albumObjects' = albumObjects \o PageItems(catalog, url)
        /\ url' = PageNext(catalog, url)
        /\ pc' = IF PageNext(catalog, url) = 0 THEN "loadExisting" ELSE "list"
        /\ UNCHANGED <<raceVars, fnVars, bfVars, diskVars, creds, catalog, pageSize, existing,
                       releases, idx, trackItems, nextTracksUrl, manual>>

\* A plausible slip: without the try / catch an unreadable file ends the run.
R_LoadExistingStrict ==
  /\ pc = "loadExisting"
  /\ existing' = loadExisting(file)
  /\ releases' = <<>>
  /\ idx' = 1
  /\ pc' = IF ~file.readable THEN "exit1"
           ELSE IF albumObjects = <<>> THEN "write" ELSE "album"
  /\ UNCHANGED <<raceVars, fnVars, bfVars, diskVars, creds, catalog, pageSize,
                 url, albumObjects, trackItems, nextTracksUrl, manual>>

\* const existing = loadExisting(); const releases = [];
R_LoadExisting ==
  /\ pc = "loadExisting"
  /\ existing' = loadExisting(file)
  /\ releases' = <<>>
  /\ idx' = 1
  /\ pc' = IF albumObjects = <<>> THEN "write" ELSE "album"
  /\ UNCHANGED <<raceVars, fnVars, bfVars, diskVars, creds, catalog, pageSize, url,
                 albumObjects, trackItems, nextTracksUrl, manual>>

\* spotifyGet(`/v1/albums/${album.id}`): the first page of tracks.
R_GetFullAlbum ==
  /\ pc = "album"
  /\ \/ Exit1
     \/ LET fullAlbum == FullAlbum(albumObjects[idx].id)
        IN  /\ trackItems' = PageItems(fullAlbum.tracks, 1)
            /\ nextTracksUrl' = PageNext(fullAlbum.tracks, 1)
            /\ pc' = IF PageNext(fullAlbum.tracks, 1) = 0 THEN "build"
                     ELSE "tracks"
            /\ UNCHANGED <<raceVars, fnVars, bfVars, diskVars, creds, catalog, pageSize, url,
                           albumObjects, existing, releases, idx, manual>>

\* One turn of while (nextTracksUrl).
R_GetTrackPage ==
  /\ pc = "tracks"
  /\ nextTracksUrl # 0
  /\ \/ Exit1
     \/ LET fullAlbum == FullAlbum(albumObjects[idx].id)
        IN  /\ trackItems' =
                 trackItems \o PageItems(fullAlbum.tracks, nextTracksUrl)
            /\ nextTracksUrl' = PageNext(fullAlbum.tracks, nextTracksUrl)
            /\ pc' = IF PageNext(fullAlbum.tracks, nextTracksUrl) = 0
                     THEN "build" ELSE "tracks"
            /\ UNCHANGED <<raceVars, fnVars, bfVars, diskVars, creds, catalog, pageSize, url,
                           albumObjects, existing, releases, idx, manual>>

\* A plausible slip: the document is saved after every release.
R_PushReleaseAndSave ==
  /\ pc = "build"
  /\ LET album == albumObjects[idx]
         man == preserveManualUrls(existing, album.id)
         built == Append(releases,
                         BuildRelease(existing, album, trackItems, man))
     IN  /\ manual' = man
         /\ releases' = built
         /\ file' = [readable |-> TRUE, lastUpdated |-> "today",
                     releases |-> built]
  /\ idx' = idx + 1
  /\ pc' = IF idx = Len(albumObjects) THEN "write" ELSE "album"
  /\ UNCHANGED <<raceVars, fnVars, bfVars, file0, writes, creds, catalog, pageSize, url,
                 albumObjects, existing, trackItems, nextTracksUrl>>

\* preserveManualUrls, the map over trackItems and releases.push.
R_PushRelease ==
  /\ pc = "build"
  /\ LET album == albumObjects[idx]
         man == preserveManualUrls(existing, album.id)
     IN  /\ manual' = man
         /\ releases' =
              Append(releases, BuildRelease(existing, album, trackItems, man))
  /\ idx' = idx + 1
  /\ pc' = IF idx = Len(albumObjects) THEN "write" ELSE "album"
  /\ UNCHANGED <<raceVars, fnVars, bfVars, diskVars, creds, catalog, pageSize, url,
                 albumObjects, existing, trackItems, nextTracksUrl>>

\* releases.sort(...) and writeFileSync(OUTPUT_PATH, JSON.stringify(output)).
R_SortAndWrite ==
  /\ pc = "write"
  /\ releases' = SortNewestFirst(releases)
  /\ file' = [readable |-> TRUE, lastUpdated |-> "today",
              releases |-> SortNewestFirst(releases)]
  /\ writes' = writes + 1
  /\ pc' = "done"
  /\ UNCHANGED <<raceVars, fnVars, bfVars, file0, creds, catalog, pageSize, url, albumObjects,
                 existing, idx, trackItems, nextTracksUrl, manual>>

NextResync ==
  \/ R_LoadEnv
  \/ R_GetAccessToken
  \/ R_FetchAllPages
  \/ R_LoadExisting
  \/ R_GetFullAlbum
  \/ R_GetTrackPage
  \/ R_PushRelease
  \/ R_SortAndWrite

SpecResync == InitResync /\ [][NextResync]_vars

\* Runs that meet no earlier document, for the pagination of the listing and
\* of the tracks.  Every awaited request is answered or rejected, so a
\* request that main awaits does not stay pending for ever.
InitPages ==
  /\ catalog \in IdCatalogs
  /\ file = Unreadable
  /\ InitResync

SpecPagesFair ==
  /\ InitPages
  /\ [][NextResync]_vars
  /\ WF_vars(R_FetchAllPages)
  /\ WF_vars(R_GetFullAlbum)
  /\ WF_vars(R_GetTrackPage)

(***************************************************************************)
(* Claims about the full resync.                                           *)
(***************************************************************************)
ReleaseLinks(r) ==
  [appleMusicUrl |-> r.appleMusicUrl, amazonMusicUrl |-> r.amazonMusicUrl,
   youtubePlaylistUrl |-> r.youtubePlaylistUrl, youtubeUrl |-> r.youtubeUrl]

TrackLinks(t) ==
  [appleMusicUrl |-> t.appleMusicUrl, amazonMusicUrl |-> t.amazonMusicUrl,
   youtubeUrl |-> t.youtubeUrl]

ResyncDone == pc = "done" /\ writes = 1

\* C1: after a resync that completes, every release of the earlier document
\* (whose identifiers are unique) whose spotifyId the catalog returns again
\* is written with its four earlier link fields, and each of its tracks
\* whose identifier recurs in that release with its three earlier link fields.
C1_LinksSurviveResync ==
  ResyncDone =>
    \A e \in Range(file0.releases) : \A w \in Range(file.releases) :
      w.spotifyId = e.spotifyId =>
        /\ ReleaseLinks(w) = ReleaseLinks(e)
        /\ \A te \in Range(e.tracks) : \A tw \in Range(w.tracks) :
             tw.spotifyId = te.spotifyId => TrackLinks(tw) = TrackLinks(te)

\* Release a, with links on the release and on its track t1, is re-fetched
\* next to a release that is new.
C1_Witness ==
  /\ ResyncDone
  /\ \E e \in Range(file0.releases) :
       /\ e.spotifyId = "a" /\ e.appleMusicUrl = Link("1")
       /\ \E te \in Range(e.tracks) : te.appleMusicUrl = Link("3")
  /\ \E w \in Range(file.releases) :
       /\ w.spotifyId = "a" /\ w.appleMusicUrl = Link("1")
       /\ w.youtubePlaylistUrl = Str(<<>>)
       /\ \E tw \in Range(w.tracks) : tw.appleMusicUrl = Link("3")
  /\ \E w \in Range(file.releases) : w.spotifyId = "b"

\* The release just pushed, the album it was built from, and the result of
\* preserveManualUrls for it are in releases[idx - 1], albumObjects[idx - 1]
\* and manual until the sort.
JustPushed == pc \in {"album", "tracks", "build", "write"} /\ idx > 1

PositionsOf(seq, id) == {i \in 1..Len(seq) : seq[i].spotifyId = id}

\* C2: preserveManualUrls returns null for the four fields when the existing
\* document has no release with the identifier, and otherwise the fields of
\* the release with that identifier; preserveTrackManualUrls returns the
\* three fields of the track with the track identifier inside the release
\* with the release identifier, and null for all three when there is none.
C2_PreserveByIdentifier ==
  JustPushed =>
    LET id == albumObjects[idx - 1].id
        at == PositionsOf(existing.releases, id)
        built == releases[idx - 1]
    IN  /\ at = {} => manual = AllNull
        /\ \A i \in at : manual = ReleaseLinks(existing.releases[i])
        /\ \A t \in 1..Len(built.tracks) :
             LET tid == built.tracks[t].spotifyId
                 here == UNION {{<<i, j>> : j \in PositionsOf(
                                     existing.releases[i].tracks, tid)}
                                  : i \in at}
             IN  /\ here = {} => TrackLinks(built.tracks[t]) = TrackAllNull
                 /\ \A p \in here :
                      TrackLinks(built.tracks[t]) =
                        TrackLinks(existing.releases[p[1]].tracks[p[2]])

\* Album a is new; the existing document holds release z with the title of
\* a and release b with links on a track t1: nothing of either is returned.
C2_Witness ==
  /\ JustPushed
  /\ albumObjects[idx - 1].id = "a"
  /\ PositionsOf(existing.releases, "a") = {}
  /\ \E e \in Range(existing.releases) :
       e.title = albumObjects[idx - 1].name /\ e.appleMusicUrl = Link("9")
  /\ \E e \in Range(existing.releases) :
       \E te \in Range(e.tracks) : te.spotifyId = "t1"
  /\ \E t \in Range(releases[idx - 1].tracks) : t.spotifyId = "t1"
  /\ manual = AllNull

\* C3: the data file is written at most once, only at the end of a run in
\* which every request succeeded and every album was built; a run that ends
\* on a fatal error leaves the document as it was.
C3_FailClosed ==
  /\ writes <= 1
  /\ writes = 0 => file = file0
  /\ pc = "exit1" => writes = 0
  /\ writes = 1 =>
       /\ pc = "done"
       /\ url = 0 /\ nextTracksUrl = 0
       /\ albumObjects = catalog
       /\ Len(releases) = Len(catalog)

\* A request fails after the first release was built.
C3_Witness ==
  /\ pc = "exit1"
  /\ Len(releases) >= 1
  /\ Len(albumObjects) > Len(releases)
  /\ file = file0
  /\ file.readable

\* str is M:SS: decimal minutes without a leading zero, a colon, and two
\* digits of seconds below 60.
IsMSS(str) ==
  /\ Len(str) >= 4
  /\ str[Len(str) - 2] = ":"
  /\ \A i \in (1..Len(str)) \ {Len(str) - 2} : str[i] \in Range(DigitChars)
  /\ ParseNat(SubSeq(str, Len(str) - 1, Len(str))) < 60
  /\ (Len(str) > 4 => str[1] # "0")

\* The number of seconds an M:SS string displays.
SecondsOfMSS(str) ==
  60 * ParseNat(SubSeq(str, 1, Len(str) - 3))
    + ParseNat(SubSeq(str, Len(str) - 1, Len(str)))

WrittenTracks ==
  UNION {Range(r.tracks) : r \in Range(file.releases)}

\* C4 as amended: every track a resync writes has durationFormatted equal to
\* its own durationMs, rounded to the nearest whole second (halves upwards),
\* displayed as M:SS.
C4_DurationRounded ==
  ResyncDone =>
    \A t \in WrittenTracks :
      /\ IsMSS(t.durationFormatted)
      /\ 1000 * SecondsOfMSS(t.durationFormatted) - 500 <= t.durationMs
      /\ t.durationMs < 1000 * SecondsOfMSS(t.durationFormatted) + 500

\* 59500 ms is written as 1:00.
C4_Witness ==
  /\ ResyncDone
  /\ \E t \in WrittenTracks :
       t.durationMs = 59500 /\ t.durationFormatted = <<"1",":","0","0">>

\* C4 as stated: durationFormatted displays floor(durationMs / 1000).
C4_DurationFloored ==
  ResyncDone =>
    \A t \in WrittenTracks :
      /\ IsMSS(t.durationFormatted)
      /\ SecondsOfMSS(t.durationFormatted) = t.durationMs \div 1000

\* C12 as stated: in the document a resync writes, the id of every release
\* is its kind ("album" or "single"), "-" and its catalog identifier, and no
\* two positions of the releases sequence hold the same id.
C12_IdsDerivedAndUnique ==
  ResyncDone =>
    /\ \A w \in Range(file.releases) :
         /\ w.type \in {"album", "single"}
         /\ w.id = <<w.type, "-", w.spotifyId>>
    /\ \A i, j \in 1..Len(file.releases) :
         file.releases[i].id = file.releases[j].id => i = j

\* The identifiers of the written releases, and of the albums the catalog
\* returned, whose release date is the time value t, in sequence order.
WrittenAt(t) ==
  LET keep(r) == getTime(r.releaseDate) = t
      kept == SelectSeq(file.releases, keep)
  IN  [i \in 1..Len(kept) |-> kept[i].spotifyId]

ReturnedAt(t) ==
  LET keep(a) == getTime(a.release_date) = t
      kept == SelectSeq(albumObjects, keep)
  IN  [i \in 1..Len(kept) |-> kept[i].id]

\* C13: in the document a resync writes no release is older than a release
\* before it, and the releases of one date are in the order in which the
\* catalog returned them.
C13_NewestFirstStable ==
  ResyncDone =>
    /\ \A i, j \in 1..Len(file.releases) :
         i < j => getTime(file.releases[i].releaseDate)
                    >= getTime(file.releases[j].releaseDate)
    /\ Len(file.releases) = Len(albumObjects)
    /\ \A a \in Range(albumObjects) :
         WrittenAt(getTime(a.release_date)) = ReturnedAt(getTime(a.release_date))

\* Two different albums of the same day, the dates written with different
\* precision, stay in the order of the catalog.
C13_Witness ==
  /\ ResyncDone
  /\ Len(albumObjects) = 2
  /\ albumObjects[1].id # albumObjects[2].id
  /\ albumObjects[1].release_date = DateYear
  /\ albumObjects[2].release_date = DateDay
  /\ file.releases[1].spotifyId = albumObjects[1].id
  /\ file.releases[2].spotifyId = albumObjects[2].id

\* The pages requested so far are the pages before url, and their items are
\* in albumObjects in page order; after the loop albumObjects is every item
\* of the listing.
AlbumPagesConcatenated ==
  /\ (pc = "list" /\ url # 0) => albumObjects = SubSeq(catalog, 1, url - 1)
  /\ pc = "loadExisting" => (url = 0 /\ albumObjects = catalog)

\* The same for the tracks of the album being fetched.
TrackPagesConcatenated ==
  /\ (pc = "tracks" /\ nextTracksUrl # 0)
       => trackItems = SubSeq(FullAlbum(albumObjects[idx].id).tracks, 1,
                              nextTracksUrl - 1)
  /\ pc = "build"
       => /\ nextTracksUrl = 0
          /\ trackItems = FullAlbum(albumObjects[idx].id).tracks

\* C14: fetchAllPages and the track loop of main request page after page
\* along the next links, keep the items of all pages in page order with
\* nothing dropped or duplicated, and end once a page has no next link (or a
\* request fails).
C14_AllPagesInOrder ==
  /\ [](AlbumPagesConcatenated /\ TrackPagesConcatenated)
  /\ (pc = "list" ~> pc \in {"loadExisting", "exit1"})
  /\ (pc \in {"album", "tracks"} ~> pc \in {"build", "exit1"})

\* Two albums and two tracks, each on a page of its own.
C14_Witness ==
  /\ pc = "build"
  /\ pageSize = 1
  /\ Len(albumObjects) = 2
  /\ albumObjects[1] # albumObjects[2]
  /\ albumObjects = catalog
  /\ Len(trackItems) = 2
  /\ trackItems[1] # trackItems[2]

\* With an unreadable data file main works on an empty existing dataset, and
\* the document it writes has a release for every album of the catalog, all
\* link fields of the releases and of their tracks null.
UnreadableTreatedAsEmpty ==
  ~file0.readable =>
    /\ pc \in {"album", "tracks", "build", "write", "done"}
         => existing = [releases |-> <<>>]
    /\ pc = "done" =>
         /\ writes = 1
         /\ file.readable
         /\ Len(file.releases) = Len(catalog)
         /\ \A w \in Range(file.releases) :
              /\ ReleaseLinks(w) = AllNull
              /\ \A t \in Range(w.tracks) : TrackLinks(t) = TrackAllNull

\* C17: loadExisting never ends the run, whatever the state of the data
\* file; a missing or unparsable file is an empty dataset, and the run that
\* completes overwrites it with a document without any cross-platform link.
C17_UnreadableFileOverwritten ==
  /\ []UnreadableTreatedAsEmpty
  /\ [][pc = "loadExisting" => pc' \in {"album", "write"}]_vars

\* A run that found no readable file wrote two releases, one with a track.
C17_Witness ==
  /\ ResyncDone
  /\ ~file0.readable
  /\ file.readable
  /\ Len(file.releases) = 2
  /\ \E w \in Range(file.releases) : w.tracks # <<>>
  /\ \A w \in Range(file.releases) : ReleaseLinks(w) = AllNull

(***************************************************************************)
(* fetch-youtube.js: channelMatches, findBestVideo, findBestPlaylist,      *)
(* confirm                                                                 *)
(***************************************************************************)
\* snippet.channelTitle?.toLowerCase().includes('jade') || ...('jade three')
channelMatches(snippet) ==
  /\ snippet.channelTitle.kind = "str"
  /\ \/ includes(toLowerCase(snippet.channelTitle.chars), <<"j","a","d","e">>)
     \/ includes(toLowerCase(snippet.channelTitle.chars),
                 <<"j","a","d","e"," ","t","h","r","e","e">>)

\* The title condition of the first loop of findBestVideo / findBestPlaylist.
TitleHit(snippet, normTitle) ==
  LET vidTitle == normalizeYoutube(OrEmpty(snippet.title))
  IN  includes(vidTitle, normTitle) \/ includes(normTitle, SliceTo(vidTitle, 6))

\* First pass, from position i on: the position of the first item of the
\* channel whose title matches, 0 when the loop runs to its end.
RECURSIVE TitlePass(_, _, _)
TitlePass(items, normTitle, i) ==
  IF i > Len(items) THEN 0
  ELSE IF channelMatches(items[i].snippet)
          /\ TitleHit(items[i].snippet, normTitle) THEN i
  ELSE TitlePass(items, normTitle, i + 1)

\* Second pass: the position of the first item of the channel.
RECURSIVE ChannelPass(_, _)
ChannelPass(items, i) ==
  IF i > Len(items) THEN 0
  ELSE IF channelMatches(items[i].snippet) THEN i
  ELSE ChannelPass(items, i + 1)

\* `https://www.youtube.com/watch?v=${item.id.videoId}`
WatchUrl(item) == Str(<<"w","a","t","c","h","?","v","=">> \o item.id.videoId)

\* `https://www.youtube.com/playlist?list=${item.id.playlistId}`
PlaylistUrl(item) ==
  Str(<<"p","l","a","y","l","i","s","t","?","l","i","s","t","=">>
        \o item.id.playlistId)

findBestVideo(items, releaseTitle) ==
  LET normTitle == normalizeYoutube(releaseTitle)
      first == TitlePass(items, normTitle, 1)
      second == ChannelPass(items, 1)
  IN  IF first # 0 THEN WatchUrl(items[first])
      ELSE IF second # 0 THEN WatchUrl(items[second])
      ELSE Null

findBestPlaylist(items, releaseTitle) ==
  LET normTitle == normalizeYoutube(releaseTitle)
      first == TitlePass(items, normTitle, 1)
      second == ChannelPass(items, 1)
  IN  IF first # 0 THEN PlaylistUrl(items[first])
      ELSE IF second # 0 THEN PlaylistUrl(items[second])
      ELSE Null

\* A plausible slip: the skip answer is not recognised.
confirmWithoutSkip(u, answer) ==
  LET trimmed == trim(answer)
  IN  IF toLowerCase(trimmed) = <<"y">> THEN u ELSE Str(trimmed)

\* confirm(url), for the answer the operator gives to the prompt.
confirm(u, answer) ==
  LET trimmed == trim(answer)
  IN  IF toLowerCase(trimmed) = <<"y">> THEN u
      ELSE IF toLowerCase(trimmed) = <<"n">> \/ trimmed = <<>> THEN Null
      ELSE Str(trimmed)

(***************************************************************************)
(* The documents, search responses and answers a backfill run may meet     *)
(***************************************************************************)
\* A persisted release for the backfill scripts; its spotifyId is set from
\* its position in the document.
BackfillRelease(title, type, apple, playlist, youtube) ==
  [id |-> <<type, "-", "0">>, type |-> type, title |-> title,
   releaseDate |-> DateYear, spotifyId |-> "0",
   appleMusicUrl |-> apple, amazonMusicUrl |-> Link("6"),
   youtubePlaylistUrl |-> playlist, youtubeUrl |-> youtube,
   tracks |-> << ExistingTrack("t1", Null, Link("5"), Null) >>]

Numbered(rels) ==
  [i \in 1..Len(rels) |->
     [rels[i] EXCEPT !.spotifyId = PositionDigits[i],
                     !.id = <<rels[i].type, "-", PositionDigits[i]>>]]

\* Documents for the media-store backfill: the title and appleMusicUrl vary.
AppleDocuments ==
  {Document(Numbered(rels)) : rels \in SeqUpTo(
     {BackfillRelease(t, "single", a, Null, Null)
        : t \in {TitleEh, TitleDeep}, a \in {Null, Str(<<>>), Link("1")}},
     MaxReleases)}

\* Documents for the video-platform backfill: the kind and the two video
\* link fields vary; every release has the same title.
YoutubeDocuments ==
  {Document(Numbered(rels)) : rels \in SeqUpTo(
     {BackfillRelease(TitleEh, ty, Null, p, y)
        : ty \in {"single", "album"}, p \in {Null, Link("7")},
          y \in {Null, Link("2")}},
     MaxReleases)}

\* data.results of the media store: at most one result.
AppleResponses ==
  {<<>>} \cup
  {<<[collectionName |-> n, collectionViewUrl |-> u]>>
     : n \in CandidateNames, u \in {ViewUrl(1), Undefined, Str(<<>>)}}

ChannelJadeThree == Str(<<"J","a","d","e"," ","T","h","r","e","e">>)
ChannelOther == Str(<<"V","e","v","o">>)

\* data.items of the video platform: at most one item.
YoutubeResponses ==
  {<<>>} \cup
  {<<[snippet |-> [channelTitle |-> c, title |-> t],
      id |-> [videoId |-> <<"x">>, playlistId |-> <<"x">>]]>>
     : c \in {ChannelJadeThree, ChannelOther, Undefined},
       t \in {Str(TitleEh), Undefined}}

\* What the operator may type at the prompt.
Answers ==
  { <<"y">>, <<" ","Y">>, <<"n">>, <<"N">>, <<>>, <<" ">>, <<" ","u"," ">> }

(***************************************************************************)
(* findBestVideo and findBestPlaylist on every list of search items drawn   *)
(* from a small pool.                                                      *)
(***************************************************************************)
\* A channel that is not the artist's but has "jade" in its name.
ChannelJaded == Str(<<"J","a","d","e","d">>)

\* data.items of a search: the item at position i carries the ids v<i>, p<i>.
ItemLists ==
  UNION { { [i \in 1..k |->
               [snippet |-> [channelTitle |-> f[i][1], title |-> f[i][2]],
                id |-> [videoId |-> <<"v", PositionDigits[i]>>,
                        playlistId |-> <<"p", PositionDigits[i]>>]]]
            : f \in [1..k -> {ChannelJadeThree, ChannelJaded, ChannelOther,
                              Undefined}
                             \X {Str(TitleEh), Str(TitleDeep)}] }
          : k \in 0..MaxItems }

InitSelect ==
  /\ pc = "call"
  /\ fnIn \in [items : ItemLists, releaseTitle : {TitleEh, TitleDeep}]
  /\ fnOut = [copy |-> "none", val |-> Null]
  /\ NoRun

CallFindBestVideo ==
  /\ pc = "call"
  /\ fnOut' = [copy |-> "findBestVideo",
               val |-> findBestVideo(fnIn.items, fnIn.releaseTitle)]
  /\ pc' = "returned"
  /\ UNCHANGED <<raceVars, fnIn, diskVars, runVars, resyncVars, bfVars>>

CallFindBestPlaylist ==
  /\ pc = "call"
  /\ fnOut' = [copy |-> "findBestPlaylist",
               val |-> findBestPlaylist(fnIn.items, fnIn.releaseTitle)]
  /\ pc' = "returned"
  /\ UNCHANGED <<raceVars, fnIn, diskVars, runVars, resyncVars, bfVars>>

NextSelect == CallFindBestVideo \/ CallFindBestPlaylist

SpecSelect == InitSelect /\ [][NextSelect]_vars

(***************************************************************************)
(* Claims about findBestVideo and findBestPlaylist.                        *)
(***************************************************************************)
SelectReturned ==
  pc = "returned" /\ fnOut.copy \in {"findBestVideo", "findBestPlaylist"}

\* The URL the function that was called builds for an item.
UrlOf(item) ==
  IF fnOut.copy = "findBestVideo" THEN WatchUrl(item) ELSE PlaylistUrl(item)

\* The owning-channel name contains the artist's name, whatever the case.
ContainsArtistName(item) ==
  /\ item.snippet.channelTitle.kind = "str"
  /\ includes(toLowerCase(item.snippet.channelTitle.chars),
              toLowerCase(<<"J","a","d","e"," ","T","h","r","e","e">>))

AffinePositions ==
  {i \in 1..Len(fnIn.items) : ContainsArtistName(fnIn.items[i])}

AffineTitlePositions ==
  {i \in AffinePositions :
     TitleHit(fnIn.items[i].snippet, normalizeYoutube(fnIn.releaseTitle))}

\* C11 as stated: the result is the first candidate of a channel whose name
\* contains "Jade Three" and whose title matches, otherwise the first
\* candidate of such a channel, and null when no candidate is of such a
\* channel.
C11_ArtistChannelOnly ==
  SelectReturned =>
    fnOut.val =
      IF AffineTitlePositions # {}
        THEN UrlOf(fnIn.items[Least(AffineTitlePositions)])
      ELSE IF AffinePositions # {}
        THEN UrlOf(fnIn.items[Least(AffinePositions)])
      ELSE Null

(***************************************************************************)
(* The backfill scripts: main of fetch-apple-music.js and fetch-youtube.js *)
(***************************************************************************)
InitBackfill ==
  /\ pc = "start"
  /\ fnIn = [str |-> <<>>]
  /\ fnOut = [copy |-> "none", val |-> <<>>]
  /\ \/ /\ script = "apple"
        /\ file \in AppleDocuments \cup {Unreadable}
        /\ creds = FALSE
     \/ /\ script = "youtube"
        /\ file \in YoutubeDocuments \cup {Unreadable}
        /\ creds \in BOOLEAN
  /\ file0 = file
  /\ writes = 0
  /\ idx = 1
  /\ ResyncIdle
  /\ RaceIdle
  /\ data = [lastUpdated |-> "never", releases |-> <<>>]
  /\ notFound = <<>>
  /\ counters = [updated |-> 0, updatedPlaylist |-> 0, skipped |-> 0]
  /\ needs = [video |-> FALSE, playlist |-> FALSE]
  /\ candidate = Null
  /\ asked = NoPrompt
  /\ searched = {}
  /\ failed = {}

\* The link field a search of the given kind fills.
FieldOf(kind) ==
  IF kind = "apple" THEN "appleMusicUrl"
  ELSE IF kind = "video" THEN "youtubeUrl"
  ELSE "youtubePlaylistUrl"

\* The entry pushed to notFound: release.title, followed by " (video)" or
\* " (playlist)" in fetch-youtube.js; release is the position of the
\* release the entry was pushed for.
Entry(kind) ==
  [title |-> data.releases[idx].title, kind |-> kind, release |-> idx]

\* Where the for loop over data.releases goes from position i.
LoopPc(i) == IF i > Len(data.releases) THEN "save" ELSE "release"

\* const data = JSON.parse(readFileSync(DATA_PATH)): an unreadable file
\* throws, and main().catch ends the process.
ReadData ==
  IF file.readable
    THEN /\ data' = [lastUpdated |-> file.lastUpdated,
                     releases |-> file.releases]
         /\ pc' = IF file.releases = <<>> THEN "save" ELSE "release"
    ELSE /\ data' = data
         /\ pc' = "exit1"

\* data.lastUpdated = today; writeFileSync(DATA_PATH, JSON.stringify(data)).
SaveData ==
  /\ data' = [data EXCEPT !.lastUpdated = "today"]
  /\ file' = [readable |-> TRUE, lastUpdated |-> "today",
              releases |-> data.releases]
  /\ writes' = writes + 1
  /\ pc' = "done"

AM_Start ==
  /\ pc = "start" /\ script = "apple"
  /\ ReadData
  /\ UNCHANGED <<raceVars, fnVars, diskVars, runVars, resyncVars, script, notFound,
                 counters, needs, candidate, asked, searched, failed>>

\* The top of the loop body: a release that has the link is skipped.
AM_Release ==
  /\ pc = "release" /\ script = "apple"
  /\ IF Truthy(data.releases[idx].appleMusicUrl)
       THEN /\ counters' = [counters EXCEPT !.skipped = @ + 1]
            /\ idx' = idx + 1
            /\ pc' = LoopPc(idx + 1)
       ELSE /\ pc' = "search"
            /\ UNCHANGED <<counters, idx>>
  /\ UNCHANGED <<raceVars, fnVars, diskVars, creds, resyncVars, script, data, notFound,
                 needs, candidate, asked, searched, failed>>

\* A plausible slip: without the try / catch a failed search ends the run.
AM_SearchUncaught ==
  /\ pc = "search" /\ script = "apple"
  /\ searched' = searched \cup {<<idx, "apple">>}
  /\ \/ /\ failed' = failed \cup {<<idx, "apple">>}
        /\ pc' = "exit1"
        /\ UNCHANGED <<notFound, data, counters, idx>>
     \/ \E results \in AppleResponses :
          LET found == findBestMatch(results, data.releases[idx].title)
          IN  /\ IF Truthy(found)
                   THEN /\ data' = [data EXCEPT
                                      !.releases[idx].appleMusicUrl = found]
                        /\ counters' = [counters EXCEPT !.updated = @ + 1]
                        /\ UNCHANGED notFound
                   ELSE /\ notFound' = Append(notFound, Entry("apple"))
                        /\ UNCHANGED <<data, counters>>
              /\ idx' = idx + 1
              /\ pc' = LoopPc(idx + 1)
              /\ UNCHANGED failed
  /\ UNCHANGED <<raceVars, fnVars, diskVars, creds, resyncVars, script, needs,
                 candidate, asked>>

\* A plausible slip: a release without a match is not reported.
AM_SearchUnreported ==
  /\ pc = "search" /\ script = "apple"
  /\ searched' = searched \cup {<<idx, "apple">>}
  /\ \/ /\ notFound' = Append(notFound, Entry("apple"))
        /\ failed' = failed \cup {<<idx, "apple">>}
        /\ UNCHANGED <<data, counters>>
     \/ \E results \in AppleResponses :
          LET found == findBestMatch(results, data.releases[idx].title)
          IN  /\ IF Truthy(found)
                   THEN /\ data' = [data EXCEPT
                                      !.releases[idx].appleMusicUrl = found]
                        /\ counters' = [counters EXCEPT !.updated = @ + 1]
                   ELSE UNCHANGED <<data, counters>>
              /\ UNCHANGED <<notFound, failed>>
  /\ idx' = idx + 1
  /\ pc' = LoopPc(idx + 1)
  /\ UNCHANGED <<raceVars, fnVars, diskVars, creds, resyncVars, script, needs,
                 candidate, asked>>

\* The try block of the loop body: searchAppleMusic, findBestMatch and the
\* assignment, or the catch.
AM_Search ==
  /\ pc = "search" /\ script = "apple"
  /\ searched' = searched \cup {<<idx, "apple">>}
  /\ \/ /\ notFound' = Append(notFound, Entry("apple"))
        /\ failed' = failed \cup {<<idx, "apple">>}
        /\ UNCHANGED <<data, counters>>
     \/ \E results \in AppleResponses :
          LET found == findBestMatch(results, data.releases[idx].title)
          IN  /\ IF Truthy(found)
                   THEN /\ data' = [data EXCEPT
                                      !.releases[idx].appleMusicUrl = found]
                        /\ counters' = [counters EXCEPT !.updated = @ + 1]
                        /\ UNCHANGED notFound
                   ELSE /\ notFound' = Append(notFound, Entry("apple"))
                        /\ UNCHANGED <<data, counters>>
              /\ UNCHANGED failed
  /\ idx' = idx + 1
  /\ pc' = LoopPc(idx + 1)
  /\ UNCHANGED <<raceVars, fnVars, diskVars, creds, resyncVars, script, needs,
                 candidate, asked>>

AM_Save ==
  /\ pc = "save" /\ script = "apple"
  /\ SaveData
  /\ UNCHANGED <<raceVars, fnVars, file0, runVars, resyncVars, script, notFound,
                 counters, needs, candidate, asked, searched, failed>>

\* The check of YOUTUBE_API_KEY, then the read of the data file.
YT_Start ==
  /\ pc = "start" /\ script = "youtube"
  /\ IF creds THEN ReadData ELSE pc' = "exit1" /\ data' = data
  /\ UNCHANGED <<raceVars, fnVars, diskVars, runVars, resyncVars, script, notFound,
                 counters, needs, candidate, asked, searched, failed>>

\* A plausible slip: a playlist is looked for whatever the kind of release.
YT_ReleaseAnyKind ==
  /\ pc = "release" /\ script = "youtube"
  /\ LET release == data.releases[idx]
         needsVideo == ~Truthy(release.youtubeUrl)
         needsPlaylist == ~Truthy(release.youtubePlaylistUrl)
     IN  /\ needs' = [video |-> needsVideo, playlist |-> needsPlaylist]
         /\ IF ~needsVideo /\ ~needsPlaylist
              THEN /\ counters' = [counters EXCEPT !.skipped = @ + 1]
                   /\ idx' = idx + 1
                   /\ pc' = LoopPc(idx + 1)
              ELSE /\ pc' = IF needsVideo THEN "searchVideo"
                            ELSE "searchPlaylist"
                   /\ UNCHANGED <<counters, idx>>
  /\ UNCHANGED <<raceVars, fnVars, diskVars, creds, resyncVars, script, data, notFound,
                 candidate, asked, searched, failed>>

\* The top of the loop body: needsVideo, needsPlaylist.
YT_Release ==
  /\ pc = "release" /\ script = "youtube"
  /\ LET release == data.releases[idx]
         needsVideo == ~Truthy(release.youtubeUrl)
         needsPlaylist == ~Truthy(release.youtubePlaylistUrl)
                            /\ release.type # "single"
     IN  /\ needs' = [video |-> needsVideo, playlist |-> needsPlaylist]
         /\ IF ~needsVideo /\ ~needsPlaylist
              THEN /\ counters' = [counters EXCEPT !.skipped = @ + 1]
                   /\ idx' = idx + 1
                   /\ pc' = LoopPc(idx + 1)
              ELSE /\ pc' = IF needsVideo THEN "searchVideo"
                            ELSE "searchPlaylist"
                   /\ UNCHANGED <<counters, idx>>
  /\ UNCHANGED <<raceVars, fnVars, diskVars, creds, resyncVars, script, data, notFound,
                 candidate, asked, searched, failed>>

\* Where main goes when it is through with the search of the given kind.
AfterSearch(kind) ==
  IF kind = "video" /\ needs.playlist
    THEN pc' = "searchPlaylist" /\ idx' = idx
    ELSE pc' = LoopPc(idx + 1) /\ idx' = idx + 1

\* searchYouTube and findBestVideo / findBestPlaylist inside the try: an
\* error or no candidate is reported; a candidate is shown to the operator.
YT_Search(kind) ==
  /\ pc = (IF kind = "video" THEN "searchVideo" ELSE "searchPlaylist")
  /\ script = "youtube"
  /\ searched' = searched \cup {<<idx, kind>>}
  /\ \/ /\ notFound' = Append(notFound, Entry(kind))
        /\ failed' = failed \cup {<<idx, kind>>}
        /\ AfterSearch(kind)
        /\ UNCHANGED candidate
     \/ \E items \in YoutubeResponses :
          LET found == IF kind = "video"
                         THEN findBestVideo(items, data.releases[idx].title)
                         ELSE findBestPlaylist(items, data.releases[idx].title)
          IN  /\ IF Truthy(found)
                   THEN /\ candidate' = found
                        /\ pc' = (IF kind = "video" THEN "confirmVideo"
                                  ELSE "confirmPlaylist")
                        /\ UNCHANGED <<notFound, idx>>
                   ELSE /\ notFound' = Append(notFound, Entry(kind))
                        /\ AfterSearch(kind)
                        /\ UNCHANGED candidate
              /\ UNCHANGED failed
  /\ UNCHANGED <<raceVars, fnVars, diskVars, creds, resyncVars, script, data, counters,
                 needs, asked>>

\* const chosen = await confirm(candidate) and the assignment or the report.
YT_Confirm(kind) ==
  /\ pc = (IF kind = "video" THEN "confirmVideo" ELSE "confirmPlaylist")
  /\ script = "youtube"
  /\ \E answer \in Answers :
       LET chosen == confirm(candidate, answer)
       IN  /\ asked' = [release |-> idx, kind |-> kind,
                        candidate |-> candidate, answer |-> answer,
                        before |-> data.releases[idx][FieldOf(kind)]]
           /\ IF Truthy(chosen)
                THEN /\ data' = [data EXCEPT
                                   !.releases[idx][FieldOf(kind)] = chosen]
                     /\ counters' =
                          IF kind = "video"
                            THEN [counters EXCEPT !.updated = @ + 1]
                            ELSE [counters EXCEPT !.updatedPlaylist = @ + 1]
                     /\ UNCHANGED notFound
                ELSE /\ notFound' = Append(notFound, Entry(kind))
                     /\ UNCHANGED <<data, counters>>
  /\ AfterSearch(kind)
  /\ UNCHANGED <<raceVars, fnVars, diskVars, creds, resyncVars, script, needs,
                 candidate, searched, failed>>

YT_SearchVideo == YT_Search("video")
YT_ConfirmVideo == YT_Confirm("video")
YT_SearchPlaylist == YT_Search("playlist")
YT_ConfirmPlaylist == YT_Confirm("playlist")

\* rl.close(), the date stamp and the write.
YT_Save ==
  /\ pc = "save" /\ script = "youtube"
  /\ SaveData
  /\ UNCHANGED <<raceVars, fnVars, file0, runVars, resyncVars, script, notFound,
                 counters, needs, candidate, asked, searched, failed>>

NextBackfill ==
  \/ AM_Start
  \/ AM_Release
  \/ AM_Search
  \/ AM_Save
  \/ YT_Start
  \/ YT_Release
  \/ YT_SearchVideo
  \/ YT_ConfirmVideo
  \/ YT_SearchPlaylist
  \/ YT_ConfirmPlaylist
  \/ YT_Save

SpecBackfill == InitBackfill /\ [][NextBackfill]_vars

(***************************************************************************)
(* Claims about the backfill scripts.                                      *)
(***************************************************************************)
BackfillDone == pc = "done" /\ script \in {"apple", "youtube"}

KindsOf(sc) == IF sc = "apple" THEN {"apple"} ELSE {"video", "playlist"}

\* The release at position i lacked the field of the kind when the run began.
Missing0(i, kind) == ~Truthy(file0.releases[i][FieldOf(kind)])

\* The release lacked the field and the script looks for it: no playlist is
\* looked for when the release is a single.
Needed0(i, kind) ==
  Missing0(i, kind) /\ (kind = "playlist" => file0.releases[i].type # "single")

EntriesFor(i, kind) ==
  {n \in 1..Len(notFound) :
     notFound[n].release = i /\ notFound[n].kind = kind}

Reported(i, kind) == EntriesFor(i, kind) # {}

\* C8: a failed search never ends the run: the release is in the report
\* under its title, the run goes on until it is done, the document is
\* written once, after the last release, stamped, and holds the data of the
\* run; every release that needed a search was searched by then.
C8_FailedSearchNeverAborts ==
  /\ writes <= 1
  /\ writes = 0 => file = file0
  /\ writes = 1 =>
       /\ pc = "done"
       /\ idx = Len(data.releases) + 1
       /\ file.releases = data.releases
       /\ file.lastUpdated = "today"
       /\ \A i \in 1..Len(file0.releases) : \A kind \in KindsOf(script) :
            Needed0(i, kind) => <<i, kind>> \in searched
  /\ failed # {} =>
       /\ pc # "exit1"
       /\ pc = "done" \/ ENABLED NextBackfill
  /\ \A f \in failed :
       \E n \in EntriesFor(f[1], f[2]) :
         notFound[n].title = data.releases[f[1]].title

\* The search for the first release failed, the second release was searched
\* afterwards, and the document was written.
C8_Witness ==
  /\ BackfillDone
  /\ writes = 1
  /\ \E kind \in KindsOf(script) :
       /\ <<1, kind>> \in failed
       /\ <<2, kind>> \in searched \ failed
       /\ Truthy(file.releases[2][FieldOf(kind)])

\* C9 as amended: when the run is done, a release and kind is in the report,
\* once and under the title of the release, exactly when the release lacked
\* the field at the start, the script looks for it (for a playlist: the
\* release is not a single) and the field is unset in the written document;
\* every search ended either with the field set or with an entry.
C9_ReportExact ==
  BackfillDone =>
    /\ \A i \in 1..Len(file0.releases) : \A kind \in KindsOf(script) :
         /\ Reported(i, kind)
              <=> (Needed0(i, kind) /\ ~Truthy(file.releases[i][FieldOf(kind)]))
         /\ Cardinality(EntriesFor(i, kind)) <= 1
    /\ \A n \in 1..Len(notFound) :
         /\ notFound[n].release \in 1..Len(file.releases)
         /\ notFound[n].title = file.releases[notFound[n].release].title
    /\ \A sr \in searched :
         Truthy(file.releases[sr[1]][FieldOf(sr[2])]) <=> ~Reported(sr[1], sr[2])

\* A video was found for one release and the playlist of a release is
\* reported, in a document of two releases with the same title.
C9_Witness ==
  /\ BackfillDone
  /\ script = "youtube"
  /\ Len(file.releases) = 2
  /\ \E i \in 1..2 : Reported(i, "playlist")
  /\ \E j \in 1..2 :
       /\ Missing0(j, "video")
       /\ Truthy(file.releases[j].youtubeUrl)
       /\ ~Reported(j, "video")

\* C9 as stated: a release and kind is in the report exactly when it lacked
\* the field at the start and the field is unset in the written document.
C9_ReportAllMissing ==
  BackfillDone =>
    \A i \in 1..Len(file0.releases) : \A kind \in KindsOf(script) :
      Reported(i, kind)
        <=> (Missing0(i, kind) /\ ~Truthy(file.releases[i][FieldOf(kind)]))

ConfirmPc(kind) == IF kind = "video" THEN "confirmVideo" ELSE "confirmPlaylist"

\* The field the last prompt was about.
AskedField == data.releases[asked.release][FieldOf(asked.kind)]

\* The outcome of the last prompt, for the answer without the white space
\* around it: y assigns the candidate, n or nothing leaves the field and
\* reports the release, anything else is assigned.
AnswerObeyed ==
  asked # NoPrompt =>
    LET a == trim(asked.answer)
    IN  CASE a \in {<<"y">>, <<"Y">>} -> AskedField = asked.candidate
          [] a \in {<<"n">>, <<"N">>, <<>>} ->
               /\ AskedField = asked.before
               /\ Reported(asked.release, asked.kind)
          [] OTHER -> AskedField = Str(a)

\* A video link field changes only in the step that reads the answer to the
\* prompt for the candidate of that release and kind.
AssignedOnlyOnAnswer ==
  script = "youtube" =>
    \A i \in 1..Len(data.releases) : \A kind \in {"video", "playlist"} :
      data'.releases[i][FieldOf(kind)] # data.releases[i][FieldOf(kind)]
        => /\ pc = ConfirmPc(kind)
           /\ i = idx
           /\ asked' = [release |-> i, kind |-> kind, candidate |-> candidate,
                        answer |-> asked'.answer,
                        before |-> data.releases[i][FieldOf(kind)]]

\* The operator is prompted only for a candidate.
PromptHasCandidate ==
  pc \in {"confirmVideo", "confirmPlaylist"} => Truthy(candidate)

\* C10 as amended: a youtubeUrl or youtubePlaylistUrl changes only on the
\* operator's answer to the prompt for that candidate; with the answer
\* trimmed, y in either case assigns the candidate, n in either case or an
\* empty answer leaves the field and reports the release, any other answer
\* is assigned trimmed; without a candidate there is no prompt.
C10_AssignOnlyOnAnswer ==
  /\ [](AnswerObeyed /\ PromptHasCandidate)
  /\ [][AssignedOnlyOnAnswer /\ (asked' # asked =>
                                   pc \in {"confirmVideo", "confirmPlaylist"})]_vars

\* The operator pasted a replacement with white space around it.
C10_Witness ==
  /\ script = "youtube"
  /\ asked.kind = "video"
  /\ asked.answer = <<" ","u"," ">>
  /\ AskedField = Str(<<"u">>)
  /\ ~Reported(asked.release, "video")

\* C10 as stated: y in either case assigns the candidate, n or the empty
\* answer leaves the field and reports the release, and any other answer is
\* assigned as the operator typed it.
C10_LiteralAnswer ==
  asked # NoPrompt =>
    CASE asked.answer \in {<<"y">>, <<"Y">>} -> AskedField = asked.candidate
      [] asked.answer \in {<<"n">>, <<>>} ->
           /\ AskedField = asked.before
           /\ Reported(asked.release, asked.kind)
      [] OTHER -> AskedField = Str(asked.answer)

\* A release without the link fields the script fills.
WithoutTargets(r) ==
  IF script = "apple" THEN [r EXCEPT !.appleMusicUrl = Null]
  ELSE [r EXCEPT !.youtubeUrl = Null, !.youtubePlaylistUrl = Null]

\* C15: a search is issued only for a release that lacked the field when the
\* run began (for the playlist: and is not a single); the written document
\* has the releases of the earlier document in their order, each equal to
\* the earlier one but for the fields the script fills, and such a field
\* differs from the earlier one only where it was searched for.
C15_OnlyMissingFieldsTouched ==
  /\ \A sr \in searched :
       /\ sr[1] \in 1..Len(file0.releases)
       /\ sr[2] \in KindsOf(script)
       /\ Needed0(sr[1], sr[2])
  /\ BackfillDone =>
       /\ Len(file.releases) = Len(file0.releases)
       /\ \A i \in 1..Len(file0.releases) :
            /\ WithoutTargets(file.releases[i])
                 = WithoutTargets(file0.releases[i])
            /\ \A kind \in KindsOf(script) :
                 file.releases[i][FieldOf(kind)]
                     # file0.releases[i][FieldOf(kind)]
                   => <<i, kind>> \in searched

\* An album that had its video link and lacked its playlist link: only the
\* playlist was searched for and filled; next to it a single without a
\* playlist link, whose playlist was not searched for.
C15_Witness ==
  /\ BackfillDone
  /\ script = "youtube"
  /\ \E i \in 1..Len(file0.releases) :
       /\ file0.releases[i].type = "album"
       /\ file0.releases[i].youtubeUrl = Link("2")
       /\ file.releases[i].youtubeUrl = Link("2")
       /\ <<i, "video">> \notin searched
       /\ Missing0(i, "playlist")
       /\ <<i, "playlist">> \in searched
       /\ Truthy(file.releases[i].youtubePlaylistUrl)
  /\ \E j \in 1..Len(file0.releases) :
       /\ file0.releases[j].type = "single"
       /\ Missing0(j, "playlist")
       /\ <<j, "playlist">> \notin searched
       /\ file.releases[j].youtubePlaylistUrl = Null

(***************************************************************************)
(* Backfill runs side by side on one data file, and a manual edit.  Every   *)
(* run is a process of its own; what it does between the read and the      *)
(* write of the file touches only its own copy of the document, so the     *)
(* awaits inside the body of the loop are taken in one step per release.   *)
(***************************************************************************)
RunIds == {"p", "q"}

\* What the editor puts into the amazonMusicUrl of a release with the n-th
\* edit.
ManualLink(n) == Str(<<"m", PositionDigits[n]>>)

\* Documents whose releases lack the links the two scripts look for: an
\* album, and an album followed by a single.
RaceDocuments ==
  { Document(Numbered(<< BackfillRelease(TitleEh, "album", Null, Null, Null) >>)),
    Document(Numbered(<< BackfillRelease(TitleEh, "album", Null, Null, Null),
                         BackfillRelease(TitleEh, "single", Null, Null, Null) >>)) }

\* A search that finds nothing and a search that finds the release.
RaceAppleResponses ==
  { <<>>, <<[collectionName |-> Str(TitleEh), collectionViewUrl |-> ViewUrl(1)]>> }

RaceYoutubeResponses ==
  { <<>>,
    <<[snippet |-> [channelTitle |-> ChannelJadeThree, title |-> Str(TitleEh)],
       id |-> [videoId |-> <<"x">>, playlistId |-> <<"x">>]]>> }

RaceAnswers == { <<"y">>, <<"n">> }

InitRace ==
  /\ pc = "race"
  /\ fnIn = [str |-> <<>>]
  /\ fnOut = [copy |-> "none", val |-> <<>>]
  /\ file \in RaceDocuments
  /\ file0 = file
  /\ writes = 0
  /\ creds = TRUE
  /\ idx = 1
  /\ ResyncIdle
  /\ BackfillIdle
  /\ runs \in [RunIds -> {[script |-> sc, pc |-> "start", idx |-> 1,
                           read |-> <<>>,
                           data |-> [lastUpdated |-> "never",
                                     releases |-> <<>>]]
                            : sc \in {"apple", "youtube"}}]
  /\ history = <<>>

Event(who, op, at) == [who |-> who, op |-> op, at |-> at]

\* A plausible slip: the run works on a copy of the document taken earlier.
RC_StartStale(r) ==
  /\ runs[r].pc = "start"
  /\ runs' = [runs EXCEPT
                ![r].data = [lastUpdated |-> file0.lastUpdated,
                             releases |-> file0.releases],
                ![r].read = file0.releases,
                ![r].pc = IF file0.releases = <<>> THEN "save" ELSE "release"]
  /\ history' = Append(history, Event(r, "read", 0))
  /\ UNCHANGED <<pc, fnVars, diskVars, runVars, resyncVars, bfVars>>

\* The check of YOUTUBE_API_KEY (fetch-youtube.js) and
\* const data = JSON.parse(readFileSync(DATA_PATH)).
RC_Start(r) ==
  /\ runs[r].pc = "start"
  /\ IF (runs[r].script = "youtube" /\ ~creds) \/ ~file.readable
       THEN /\ runs' = [runs EXCEPT ![r].pc = "exit1"]
            /\ UNCHANGED history
       ELSE /\ runs' = [runs EXCEPT
                          ![r].data = [lastUpdated |-> file.lastUpdated,
                                       releases |-> file.releases],
                          ![r].read = file.releases,
                          ![r].pc = IF file.releases = <<>> THEN "save"
                                    ELSE "release"]
            /\ history' = Append(history, Event(r, "read", 0))
  /\ UNCHANGED <<pc, fnVars, diskVars, runVars, resyncVars, bfVars>>

\* Where the for loop of run r goes after the release at its position.
RC_Advance(r, release) ==
  runs' = [runs EXCEPT
             ![r].data.releases[runs[r].idx] = release,
             ![r].idx = @ + 1,
             ![r].pc = IF runs[r].idx + 1 > Len(runs[r].data.releases)
                         THEN "save" ELSE "release"]

\* The body of the loop of fetch-apple-music.js for one release: a failed
\* search (ok is FALSE) or a search without a match leaves the release as
\* it is.
RC_AppleRelease(r) ==
  /\ runs[r].pc = "release" /\ runs[r].script = "apple"
  /\ LET release == runs[r].data.releases[runs[r].idx]
     IN  IF Truthy(release.appleMusicUrl)
           THEN RC_Advance(r, release)
           ELSE \E ok \in BOOLEAN : \E results \in RaceAppleResponses :
                  LET found == findBestMatch(results, release.title)
                  IN  RC_Advance(r,
                        IF ok /\ Truthy(found)
                          THEN [release EXCEPT !.appleMusicUrl = found]
                          ELSE release)
  /\ UNCHANGED <<pc, fnVars, diskVars, runVars, resyncVars, bfVars, history>>

\* The URL the operator settles on for a candidate, null without one.
Chosen(found, answer) ==
  IF Truthy(found) THEN confirm(found, answer) ELSE Null

\* The body of the loop of fetch-youtube.js for one release: the video, then
\* the playlist.
RC_YoutubeRelease(r) ==
  /\ runs[r].pc = "release" /\ runs[r].script = "youtube"
  /\ LET release == runs[r].data.releases[runs[r].idx]
         needsVideo == ~Truthy(release.youtubeUrl)
         needsPlaylist == ~Truthy(release.youtubePlaylistUrl)
                            /\ release.type # "single"
     IN  \E ok \in BOOLEAN : \E items \in RaceYoutubeResponses :
         \E answer \in RaceAnswers :
           LET video == Chosen(findBestVideo(items, release.title), answer)
               playlist ==
                 Chosen(findBestPlaylist(items, release.title), answer)
               withVideo ==
                 IF needsVideo /\ ok /\ Truthy(video)
                   THEN [release EXCEPT !.youtubeUrl = video] ELSE release
           IN  \E okPlaylist \in BOOLEAN :
                 RC_Advance(r,
                   IF needsPlaylist /\ okPlaylist /\ Truthy(playlist)
                     THEN [withVideo EXCEPT !.youtubePlaylistUrl = playlist]
                     ELSE withVideo)
  /\ UNCHANGED <<pc, fnVars, diskVars, runVars, resyncVars, bfVars, history>>

\* data.lastUpdated = today; writeFileSync(DATA_PATH, JSON.stringify(data)).
RC_Save(r) ==
  /\ runs[r].pc = "save"
  /\ runs' = [runs EXCEPT ![r].data.lastUpdated = "today", ![r].pc = "done"]
  /\ file' = [readable |-> TRUE, lastUpdated |-> "today",
              releases |-> runs[r].data.releases]
  /\ writes' = writes + 1
  /\ history' = Append(history, Event(r, "write", 0))
  /\ UNCHANGED <<pc, fnVars, file0, runVars, resyncVars, bfVars>>

Edits == {k \in 1..Len(history) : history[k].op = "edit"}

\* Someone adds the amazonMusicUrl of a release to the file by hand.
ManualEdit ==
  /\ Cardinality(Edits) < MaxEdits
  /\ file.readable
  /\ \E i \in 1..Len(file.releases) :
       /\ file' = [file EXCEPT !.releases[i].amazonMusicUrl =
                                  ManualLink(Cardinality(Edits) + 1)]
       /\ history' = Append(history, Event("editor", "edit", i))
  /\ UNCHANGED <<pc, fnVars, file0, writes, runVars, resyncVars, bfVars, runs>>

NextRace ==
  \/ \E r \in RunIds : RC_Start(r)
  \/ \E r \in RunIds : RC_AppleRelease(r)
  \/ \E r \in RunIds : RC_YoutubeRelease(r)
  \/ \E r \in RunIds : RC_Save(r)
  \/ ManualEdit

SpecRace == InitRace /\ [][NextRace]_vars

(***************************************************************************)
(* Claims about runs side by side.                                         *)
(***************************************************************************)
\* The moment run r read the file and the moment it wrote it, as positions
\* in history; 0 before.
ReadAt(r) ==
  IF \E k \in 1..Len(history) : history[k] = Event(r, "read", 0)
    THEN CHOOSE k \in 1..Len(history) : history[k] = Event(r, "read", 0)
    ELSE 0

WriteAt(r) ==
  IF \E k \in 1..Len(history) : history[k] = Event(r, "write", 0)
    THEN CHOOSE k \in 1..Len(history) : history[k] = Event(r, "write", 0)
    ELSE 0

\* The last moment the file changed.
LastChange ==
  LET changes == {k \in 1..Len(history) : history[k].op \in {"write", "edit"}}
  IN  IF changes = {} THEN 0
      ELSE CHOOSE k \in changes : \A j \in changes : j <= k

LinkFields ==
  {"appleMusicUrl", "amazonMusicUrl", "youtubePlaylistUrl", "youtubeUrl"}

\* The fields run r set: where its copy differs from what it read.
Updates(r) ==
  {u \in (1..Len(runs[r].read)) \X LinkFields :
     runs[r].data.releases[u[1]][u[2]] # runs[r].read[u[1]][u[2]]}

\* The n-th edit by hand is the edit at position k of history.
EditNumber(k) == Cardinality({j \in Edits : j <= k})

Wrote(r) == runs[r].pc = "done"
RaceDone == \A r \in RunIds : Wrote(r)

\* The document is the copy of the run that wrote last; what the other run
\* or the editor put into the file after that run had read it is gone.
LastWriterWins ==
  \A r \in RunIds :
    (Wrote(r) /\ WriteAt(r) = LastChange) =>
      /\ file.releases = runs[r].data.releases
      /\ file.lastUpdated = "today"
      /\ \A k \in Edits :
           ReadAt(r) < k =>
             file.releases[history[k].at].amazonMusicUrl
               # ManualLink(EditNumber(k))
      /\ \A w \in RunIds \ {r} :
           (Wrote(w) /\ ReadAt(r) < WriteAt(w)) =>
             \A u \in Updates(w) \ Updates(r) :
               file.releases[u[1]][u[2]] # runs[w].data.releases[u[1]][u[2]]

\* Run w was at work while the file changed at moment k.
Overlaps(w, k) == ReadAt(w) # 0 /\ ReadAt(w) < k /\ (Wrote(w) => k < WriteAt(w))

\* When no run was at work while another run wrote or the editor edited,
\* nothing either of them set is lost.
NoLossInSequence ==
  RaceDone =>
    /\ \A r \in RunIds :
         (\A w \in RunIds \ {r} : ~Overlaps(w, WriteAt(r))) =>
           \A u \in Updates(r) :
             file.releases[u[1]][u[2]] = runs[r].data.releases[u[1]][u[2]]
    /\ \A k \in Edits :
         ((\A w \in RunIds : ~Overlaps(w, k))
            /\ \A j \in Edits : (j > k => history[j].at # history[k].at)) =>
           file.releases[history[k].at].amazonMusicUrl
             = ManualLink(EditNumber(k))

\* C16: every run reads the file once and writes its whole copy at the end,
\* so the document is always the copy of the last writer and the updates
\* made to the file between that run's read and its write are lost; updates
\* of runs and edits that do not overlap in time are never lost.
C16_LastWriterWins ==
  /\ \A r \in RunIds :
       /\ Cardinality({k \in 1..Len(history) : history[k].who = r
                                                /\ history[k].op = "read"}) <= 1
       /\ Cardinality({k \in 1..Len(history) : history[k].who = r
                                                /\ history[k].op = "write"}) <= 1
       /\ Wrote(r) => (0 < ReadAt(r) /\ ReadAt(r) < WriteAt(r))
  /\ LastWriterWins
  /\ NoLossInSequence

\* A lost update: one run set a link and wrote it while the other run was
\* at work; that run wrote last, and the link is not in the document.
C16_Witness ==
  /\ RaceDone
  /\ \E r, w \in RunIds :
       /\ r # w
       /\ ReadAt(w) < WriteAt(r)
       /\ WriteAt(r) < WriteAt(w)
       /\ \E u \in Updates(r) :
            /\ Truthy(runs[r].data.releases[u[1]][u[2]])
            /\ file.releases[u[1]][u[2]] = Null

====
